---- MODULE Spec2Model ----
(***************************************************************************)
(* Model of the bridge_ide agent workflow: the LangGraph workflow of       *)
(* app/graph/workflow.py, its agents (app/agents/*.py) and the /generate   *)
(* and /refine streaming handlers of app/api/agent_routes.py with their    *)
(* in-memory registry PROJECT_STATES.                                      *)
(*                                                                         *)
(* Python dicts are TLA+ functions whose DOMAIN is the dict's key set.     *)
(* Each asyncio task step between two suspension points is one action.     *)
(***************************************************************************)
EXTENDS Integers, Sequences, FiniteSets, TLC

(***************************************************************************)
(* Bounds of the model.                                                    *)
(***************************************************************************)
\* number of project ids uuid4() can hand out
NumKeys == 2
\* total number of /generate and /refine calls in one behaviour
MaxCalls == 2

Keys == 1..NumKeys

(***************************************************************************)
(* Python values.                                                          *)
(***************************************************************************)
\* Python's None where a str is expected
None == "<None>"
\* the empty dict {}
EmptyDict == [x \in {} |-> None]

\* d.get(k, default)
Get(d, k, default) == IF k \in DOMAIN d THEN d[k] ELSE default

\* d.update(p): top-level keys of p replace or extend those of d
Update(d, p) ==
    [k \in (DOMAIN d) \cup (DOMAIN p) |-> IF k \in DOMAIN p THEN p[k] ELSE d[k]]

\* truth value of an Optional[str]
Truthy(v) == v # None /\ v # ""

\* one-entry dict
Dict1(k, v) == [x \in {k} |-> v]

(***************************************************************************)
(* File names are sequences of tokens, so that Python's substring test     *)
(* ("package.json" in k) is a contiguous-subsequence test.                 *)
(***************************************************************************)
PKG == <<"package.json">>
INDEX == <<"index.html">>
GITIGNORE == <<".gitignore">>
VITE == <<"vite.config.js">>
POSTCSS == <<"postcss.config.js">>
TAILWIND == <<"tailwind.config.js">>
INDEXCSS == <<"src/", "index.css">>
MAINJSX == <<"src/", "main.jsx">>
APPJSX == <<"src/", "App.jsx">>
MAINCOMP == <<"src/", "components/", "Main.jsx">>
PKGBAK == <<"package.json", ".bak">>

\* needle in k, for str k
Contains(k, needle) ==
    \E i \in 1..(Len(k) - Len(needle) + 1) :
        SubSeq(k, i, i + Len(needle) - 1) = needle

\* a dict of files all with the same content
FilesOf(names, content) == [n \in names |-> content]

(***************************************************************************)
(* Outcome of one node call: a returned patch or a raised exception.       *)
(***************************************************************************)
Return(p) == [raised |-> FALSE, patch |-> p]
Raise == [raised |-> TRUE, patch |-> EmptyDict]

(***************************************************************************)
(* What the language model may answer.  The text of an answer is opaque;   *)
(* only the fields that the workflow reads are kept.                       *)
(***************************************************************************)
UserLevels == {"beginner", "intermediate", "advanced"}
Complexities == {"simple", "medium", "complex"}
\* ProjectCode.files as a filename -> content dict; the list may be empty
LLMFiles == {EmptyDict, FilesOf({APPJSX, PKGBAK}, "llm")}
\* an answer, or a failed call (ok = FALSE)
LLMFail == [ok |-> FALSE, user_level |-> None, complexity |-> None, files |-> EmptyDict]
\* the classifications an answer may carry: with the fallback classification
\* they take route_classifier through each of its three cases
Classifications == {<<"intermediate", "medium">>, <<"advanced", "complex">>}
ClassifierAnswers ==
    {[ok |-> TRUE, user_level |-> c[1], complexity |-> c[2], files |-> EmptyDict] :
        c \in Classifications} \cup {LLMFail}
FileAnswers ==
    {[ok |-> TRUE, user_level |-> None, complexity |-> None, files |-> f] :
        f \in LLMFiles} \cup {LLMFail}
PlainAnswers ==
    {[ok |-> TRUE, user_level |-> None, complexity |-> None, files |-> EmptyDict], LLMFail}

(***************************************************************************)
(* app/graph/workflow.py                                                   *)
(***************************************************************************)
router_node(state) == Return(EmptyDict)

\* route_start testing "is not None" instead of truthiness
route_start_NotNone(state) ==
    IF Get(state, "user_feedback", None) # None THEN "refinement" ELSE "classifier"

route_start(state) ==
    IF Truthy(Get(state, "user_feedback", None)) THEN "refinement" ELSE "classifier"

\* route_classifier sending every classification to research
route_classifier_Always(state) == "research"

\* route_classifier requiring both conditions
route_classifier_And(state) ==
    LET classification == Get(state, "classification", EmptyDict)
        user_level == Get(classification, "user_level", None)
        complexity == Get(classification, "complexity", None)
    IN  IF user_level = "beginner" /\ complexity = "complex"
        THEN "research"
        ELSE "code_generator"

route_classifier(state) ==
    LET classification == Get(state, "classification", EmptyDict)
        user_level == Get(classification, "user_level", None)
        complexity == Get(classification, "complexity", None)
    IN  IF user_level = "beginner" \/ complexity = "complex"
        THEN "research"
        ELSE "code_generator"

END == "__end__"

\* define_graph with an edge from qa back to code_generator
Successor_QaRetries(node, state) ==
    CASE node = "router" -> route_start(state)
      [] node = "classifier" -> route_classifier(state)
      [] node = "research" -> "design"
      [] node = "design" -> "code_generator"
      [] node = "code_generator" -> "file_organizer"
      [] node = "file_organizer" -> "qa"
      [] node = "qa" -> "code_generator"
      [] node = "refinement" -> "file_organizer"

\* define_graph with the edge out of refinement wired to qa
Successor_RefinementToQa(node, state) ==
    CASE node = "router" -> route_start(state)
      [] node = "classifier" -> route_classifier(state)
      [] node = "research" -> "design"
      [] node = "design" -> "code_generator"
      [] node = "code_generator" -> "file_organizer"
      [] node = "file_organizer" -> "qa"
      [] node = "qa" -> END
      [] node = "refinement" -> "qa"

\* the edges of define_graph; state is the graph state after the node's patch
Successor(node, state) ==
    CASE node = "router" -> route_start(state)
      [] node = "classifier" -> route_classifier(state)
      [] node = "research" -> "design"
      [] node = "design" -> "code_generator"
      [] node = "code_generator" -> "file_organizer"
      [] node = "file_organizer" -> "qa"
      [] node = "qa" -> END
      [] node = "refinement" -> "file_organizer"

(***************************************************************************)
(* app/agents: every agent is given the graph state, whether get_llm has   *)
(* an API key (it raises ValueError otherwise) and the model's answer.     *)
(***************************************************************************)
FallbackClassification == [user_level |-> "beginner", complexity |-> "medium"]

classifier_agent(state, hasKey, llm) ==
    IF ~hasKey THEN Raise
    ELSE IF llm.ok
         THEN Return(Dict1("classification",
                  [user_level |-> llm.user_level, complexity |-> llm.complexity]))
         ELSE Return(Dict1("classification", FallbackClassification))

research_agent(state, hasKey, llm) ==
    IF ~hasKey \/ ~llm.ok THEN Raise
    ELSE Return(Dict1("research_context", [summary |-> "llm"]))

DesignSpecValue == [architecture_overview |-> "llm", file_structure |-> <<APPJSX>>]

design_agent(state, hasKey, llm) ==
    IF ~hasKey \/ ~llm.ok THEN Raise
    ELSE Return(Dict1("design_spec", DesignSpecValue))

\* design_spec has no "components", so the fallback has the one component Main
generate_fallback_files(file_list, design_spec) ==
    FilesOf({PKG, VITE, TAILWIND, POSTCSS, INDEXCSS, INDEX, MAINJSX, APPJSX, MAINCOMP},
            "fallback")

code_generator_agent(state, hasKey, llm) ==
    LET design_spec == Get(state, "design_spec", EmptyDict)
        file_list == Get(design_spec, "file_structure", <<>>)
    IN  IF ~hasKey THEN Raise
        ELSE IF llm.ok
             THEN Return(Dict1("current_files", llm.files))
             ELSE Return(Dict1("current_files",
                      generate_fallback_files(file_list, design_spec)))

\* a file organizer that writes its six defaults over whatever is there
file_organizer_agent_Overwrites(state) ==
    LET files == Get(state, "current_files", EmptyDict)
        defaults == {PKG, INDEX, GITIGNORE, VITE, POSTCSS, TAILWIND}
    IN  Return(Dict1("current_files",
            [k \in (DOMAIN files) \cup defaults |->
                IF k \in defaults THEN "default" ELSE files[k]]))

file_organizer_agent(state) ==
    LET files == Get(state, "current_files", EmptyDict)
        has_package_json == \E k \in DOMAIN files : Contains(k, PKG)
        has_index_html == \E k \in DOMAIN files : Contains(k, INDEX)
        missing == (IF has_package_json THEN {} ELSE {PKG})
                   \cup (IF has_index_html THEN {} ELSE {INDEX})
                   \cup ({GITIGNORE, VITE, POSTCSS, TAILWIND} \ DOMAIN files)
    IN  Return(Dict1("current_files",
            [k \in (DOMAIN files) \cup missing |->
                IF k \in DOMAIN files THEN files[k] ELSE "default"]))

\* a refinement stage that also classifies the feedback
refinement_agent_Reclassifies(state, hasKey, llm) ==
    LET current_files == state["current_files"]
        feedback == Get(state, "user_feedback", None)
        updated_files == Update(current_files, llm.files)
    IN  IF ~Truthy(feedback) THEN Return(EmptyDict)
        ELSE IF ~hasKey \/ ~llm.ok THEN Raise
        ELSE Return([x \in {"current_files", "iteration_count", "classification"} |->
                 CASE x = "current_files" -> updated_files
                   [] x = "iteration_count" -> Get(state, "iteration_count", 0) + 1
                   [] x = "classification" -> FallbackClassification])

refinement_agent(state, hasKey, llm) ==
    LET current_files == state["current_files"]
        feedback == Get(state, "user_feedback", None)
        updated_files == Update(current_files, llm.files)
    IN  IF ~Truthy(feedback) THEN Return(EmptyDict)
        ELSE IF ~hasKey \/ ~llm.ok THEN Raise
        ELSE Return([x \in {"current_files", "iteration_count"} |->
                 IF x = "current_files" THEN updated_files
                 ELSE Get(state, "iteration_count", 0) + 1])

\* app/agents/qa.py is not part of the sources: the review stage as specified
\* (a stage owns its fields and absorbs its own failure in a fallback patch);
\* the content of its record is opaque
qa_agent(state, hasKey, llm) ==
    Return(Dict1("execution_results", [status |-> "reviewed"]))

(***************************************************************************)
(* State.                                                                  *)
(***************************************************************************)
VARIABLES
    store,        \* PROJECT_STATES: project id -> state dict
    trav,         \* one record per accepted /generate or /refine call, in call order:
                  \*   key, kind and feedback of the call; pc, the position of its
                  \*   event_generator; state, the graph state of its astream;
                  \*   events, the notifications sent; error, why it failed; and
                  \*   history: before/after, iteration_count stored before the
                  \*   call and at its complete event; alone, no other /generate
                  \*   or /refine call has written the key since the call; wrote,
                  \*   it patched the key; ran, the nodes it has called, in
                  \*   order; patched, the current_files of each of its patches
                  \*   that carried current_files, in order; patchKeys, the
                  \*   top-level keys of the latest patch a node of it returned
    known,        \* the project ids that an init notification has disclosed
    hasKey,       \* settings.GROQ_API_KEY is set (get_llm raises ValueError if not)
    noneOnEmpty,  \* graph.astream reports a node that returned {} as {node: None}
    writer,       \* history: per project id, the last traversal that patched it
    interleaved,  \* history: per project id, a traversal patched it, then another
                  \*   traversal did, then the first one again
    rIn,          \* the state given to a routing function on its own
    rOut,         \* what that routing function returned
    resp          \* the HTTP response of the request handled in the latest step
                  \*   (NoResponse when the latest step handled no request)

vars == <<store, trav, known, hasKey, noneOnEmpty, writer, interleaved, rIn, rOut, resp>>

Nodes == {"router", "classifier", "research", "design", "code_generator",
          "file_organizer", "qa", "refinement"}

\* the channels of the graph: the keys of ProjectState
SchemaKeys == {"original_prompt", "user_id", "conversation_history", "current_files",
               "user_feedback", "iteration_count", "classification",
               "research_context", "design_spec", "execution_results"}

Prompts == {"build a counter"}
FeedbackTexts == {"", "blue"}

\* the notifications of a stream
NoFiles == EmptyDict
InitEvent == [type |-> "init", node |-> "", files |-> NoFiles]
ProgressEvent(n) == [type |-> "progress", node |-> n, files |-> NoFiles]
FilesEvent(f) == [type |-> "files", node |-> "", files |-> f]
CompleteEvent(f) == [type |-> "complete", node |-> "", files |-> f]

\* history bookkeeping of a write to store[k] by actor a (a traversal, or 0 for
\* a handler): every other traversal on k that has not ended is no longer alone
Disturb(tr, a, k) ==
    [u \in DOMAIN tr |->
        IF u # a /\ tr[u].key = k /\ tr[u].pc \notin {"done", "failed", "closed"}
        THEN [tr[u] EXCEPT !.alone = FALSE]
        ELSE tr[u]]

initial_state(prompt) ==
    [x \in {"original_prompt", "user_id", "conversation_history", "iteration_count",
            "current_files", "user_feedback"} |->
        CASE x = "original_prompt" -> prompt
          [] x = "user_id" -> "u"
          [] x = "conversation_history" -> <<>>
          [] x = "iteration_count" -> 0
          [] x = "current_files" -> EmptyDict
          [] x = "user_feedback" -> None]

NewTraversal(k, kind, feedback, before) ==
    [key |-> k, kind |-> kind, pc |-> "created", state |-> EmptyDict,
     events |-> <<>>, feedback |-> feedback, before |-> before, after |-> 0,
     alone |-> TRUE, wrote |-> FALSE, error |-> "", ran |-> <<>>, patched |-> <<>>,
     patchKeys |-> {}, changed |-> EmptyDict]

\* no routing function has been applied on its own
NoRoute == [start |-> "-", classifier |-> "-"]

\* the HTTP responses: the handler called, the project id it was called on, the
\* status code and the body (a stream's body is its notifications, kept in trav)
NoResponse == [op |-> "-", key |-> 0, status |-> 0, body |-> EmptyDict]
Response(op, k, status, body) == [op |-> op, key |-> k, status |-> status, body |-> body]

Init ==
    /\ store = EmptyDict
    /\ trav = <<>>
    /\ known = {}
    /\ hasKey \in BOOLEAN
    /\ noneOnEmpty \in BOOLEAN
    /\ writer = [k \in Keys |-> 0]
    /\ interleaved = [k \in Keys |-> FALSE]
    /\ rIn = EmptyDict
    /\ rOut = NoRoute
    /\ resp = NoResponse

\* a /generate handler that rebinds the registry: every project stored so far
\* starts over from the new initial state
generate_project_Rebinds(prompt) ==
    /\ Len(trav) < MaxCalls
    /\ \E k \in Keys :
        /\ k \notin DOMAIN store
        /\ \A j \in Keys : j < k => j \in DOMAIN store
        /\ store' = [x \in (DOMAIN store) \cup {k} |-> initial_state(prompt)]
        /\ trav' = Append(trav, NewTraversal(k, "generate", None, 0))
        /\ resp' = Response("generate", k, 200, EmptyDict)
    /\ UNCHANGED <<known, hasKey, noneOnEmpty, writer, interleaved, rIn, rOut>>

\* POST /generate: the handler up to its return
generate_project(prompt) ==
    /\ Len(trav) < MaxCalls
    /\ \E k \in Keys :
        /\ k \notin DOMAIN store
        /\ \A j \in Keys : j < k => j \in DOMAIN store
        /\ store' = [x \in (DOMAIN store) \cup {k} |->
                        IF x = k THEN initial_state(prompt) ELSE store[x]]
        /\ trav' = Append(trav, NewTraversal(k, "generate", None, 0))
        /\ resp' = Response("generate", k, 200, EmptyDict)
    /\ UNCHANGED <<known, hasKey, noneOnEmpty, writer, interleaved, rIn, rOut>>

\* the two assignments of the /refine handler to the stored dict
RefineStore(state, feedback) ==
    LET s1 == Update(state, Dict1("user_feedback", feedback))
    IN  Update(s1, Dict1("iteration_count", Get(s1, "iteration_count", 0) + 1))

\* a /refine handler that assigns to the registry entry before it looks it up
RefineResult_AssignsFirst(st, k, feedback) ==
    IF k \notin DOMAIN st
    THEN [status |-> 404,
          store |-> [x \in (DOMAIN st) \cup {k} |->
                        IF x = k THEN RefineStore(EmptyDict, feedback) ELSE st[x]]]
    ELSE [status |-> 200, store |-> [st EXCEPT ![k] = RefineStore(@, feedback)]]

\* what the /refine handler does to PROJECT_STATES st and what it answers:
\* 404 and nothing else for a project id that is not stored
RefineResult(st, k, feedback) ==
    IF k \notin DOMAIN st
    THEN [status |-> 404, store |-> st]
    ELSE [status |-> 200, store |-> [st EXCEPT ![k] = RefineStore(@, feedback)]]

\* POST /refine: the handler up to its return or its HTTPException.  A caller
\* has the id of a stored project (a uuid4) only from an init notification.
refine_project(k, feedback) ==
    LET r == RefineResult(store, k, feedback)
    IN  /\ k \in DOMAIN store => (Len(trav) < MaxCalls /\ k \in known)
        /\ store' = r.store
        /\ resp' = Response("refine", k, r.status, EmptyDict)
        /\ trav' = IF r.status = 200
                   THEN Append(Disturb(trav, 0, k),
                               NewTraversal(k, "refine", feedback,
                                            Get(store[k], "iteration_count", 0)))
                   ELSE trav
        /\ UNCHANGED <<known, hasKey, noneOnEmpty, writer, interleaved, rIn, rOut>>

\* a /status handler that looks the project up with a defaulting accessor
StatusResult_Creates(st, k) ==
    LET state == Update(Get(st, k, EmptyDict), Dict1("project_id", k))
    IN  [status |-> IF k \in DOMAIN st THEN 200 ELSE 404,
         store |-> [x \in (DOMAIN st) \cup {k} |-> IF x = k THEN state ELSE st[x]],
         body |-> IF k \in DOMAIN st THEN state ELSE EmptyDict]

\* what GET /status/{project_id} does to PROJECT_STATES st and what it answers:
\* the stored dict itself, after the handler has put the project id in it
StatusResult(st, k) ==
    IF k \notin DOMAIN st
    THEN [status |-> 404, store |-> st, body |-> EmptyDict]
    ELSE LET state == Update(st[k], Dict1("project_id", k))
         IN  [status |-> 200, store |-> [st EXCEPT ![k] = state], body |-> state]

\* GET /status/{project_id}; as for /refine, a caller has the id of a stored
\* project only from an init notification
get_status(k) ==
    LET r == StatusResult(store, k)
    IN  /\ k \in DOMAIN store => k \in known
        /\ store' = r.store
        /\ resp' = Response("status", k, r.status, r.body)
        /\ UNCHANGED <<trav, known, hasKey, noneOnEmpty, writer, interleaved, rIn, rOut>>

\* the stream is first read: event_generator runs to its first yield
StartStream(t) ==
    /\ trav[t].pc = "created"
    /\ trav' = [trav EXCEPT ![t].pc = "started", ![t].events = Append(@, InitEvent)]
    /\ known' = known \cup {trav[t].key}
    /\ UNCHANGED <<store, hasKey, noneOnEmpty, writer, interleaved, rIn, rOut>>
    /\ resp' = NoResponse

\* graph.astream(state): the graph copies the channels of the stored dict
GraphInput(state) == [x \in (DOMAIN state) \cap SchemaKeys |-> state[x]]

\* PROJECT_STATES[project_id].update(value)
MergePatch(state, value) == Update(state, value)

\* the value astream reports for a node that returned patch
ValueIsNone(patch) == DOMAIN patch = {} /\ noneOnEmpty

\* a /generate stream that sends progress only when it has merged a patch
GenerateEvents_ProgressInsideIf(node, patch) ==
    IF DOMAIN patch = {}
    THEN <<>>
    ELSE <<ProgressEvent(node)>> \o
         (IF "current_files" \in DOMAIN patch
          THEN <<FilesEvent(patch["current_files"])>>
          ELSE <<>>)

\* the notifications of one astream event in the /generate stream
GenerateEvents(node, patch) ==
    <<ProgressEvent(node)>> \o
    (IF DOMAIN patch # {} /\ "current_files" \in DOMAIN patch
     THEN <<FilesEvent(patch["current_files"])>>
     ELSE <<>>)

\* the notifications of one astream event in the /refine stream
RefineEvents(node, patch) == <<ProgressEvent(node)>>

\* whether the stream's loop body raises on this event (None.update in /refine)
LoopRaises(kind, patch) == kind = "refine" /\ ValueIsNone(patch)

\* whether the loop body writes the patch to the stored dict
LoopWrites(kind, k, patch) ==
    IF kind = "generate"
    THEN ~ValueIsNone(patch) /\ k \in DOMAIN store
    ELSE TRUE

\* the graph state is garbage once the traversal has reached the end
Keep(nxt, g) == IF nxt = END THEN EmptyDict ELSE g

\* the entries of files that are not entries of snapshot: what a stage that
\* was given snapshot and returns files has added or rewritten
ChangedFiles(snapshot, files) ==
    [n \in {x \in DOMAIN files : x \notin DOMAIN snapshot \/ snapshot[x] # files[x]}
        |-> files[n]]

\* One step of graph.astream and of the loop body that receives its event:
\* node has run on the graph state g of traversal t with outcome out.
DeliverFrom(t, g, node, out) ==
    LET T == trav[t]
        k == T.key
        g2 == Update(g, out.patch)
        nxt == Successor(node, g2)
        touches == DOMAIN out.patch # {}
    IN  IF out.raised \/ LoopRaises(T.kind, out.patch)
        THEN /\ trav' = [trav EXCEPT ![t].pc = "failed", ![t].state = EmptyDict,
                                     ![t].ran = Append(@, node),
                                     ![t].patchKeys = {},
                                     ![t].error = IF out.raised THEN "stage" ELSE "loop"]
             /\ UNCHANGED <<store, writer, interleaved>>
        ELSE /\ store' = IF LoopWrites(T.kind, k, out.patch)
                         THEN [store EXCEPT ![k] = MergePatch(@, out.patch)]
                         ELSE store
             /\ trav' = [Disturb(trav, IF touches THEN t ELSE 0,
                                 IF touches THEN k ELSE 0)
                            EXCEPT ![t].pc = IF nxt = END THEN "end" ELSE nxt,
                                   ![t].state = Keep(nxt, g2),
                                   ![t].wrote = @ \/ touches,
                                   ![t].ran = Append(@, node),
                                   ![t].patchKeys = DOMAIN out.patch,
                                   ![t].changed =
                                       IF node = "refinement"
                                          /\ "current_files" \in DOMAIN out.patch
                                       THEN ChangedFiles(Get(g, "current_files", EmptyDict),
                                                         out.patch["current_files"])
                                       ELSE @,
                                   ![t].patched =
                                       IF "current_files" \in DOMAIN out.patch
                                       THEN Append(@, out.patch["current_files"])
                                       ELSE @,
                                   ![t].events = @ \o
                                       (IF T.kind = "generate"
                                        THEN GenerateEvents(node, out.patch)
                                        ELSE RefineEvents(node, out.patch))]
             /\ writer' = IF touches THEN [writer EXCEPT ![k] = t] ELSE writer
             /\ interleaved' =
                    IF touches /\ T.wrote /\ writer[k] # t
                    THEN [interleaved EXCEPT ![k] = TRUE]
                    ELSE interleaved

\* The first step of graph.astream(state): the graph copies the channels of the
\* stored dict and runs its entry node.
Begin(t) ==
    /\ trav[t].pc = "started"
    /\ LET g == GraphInput(store[trav[t].key])
       IN  DeliverFrom(t, g, "router", router_node(g))
    /\ UNCHANGED <<known, hasKey, noneOnEmpty, rIn, rOut>>
    /\ resp' = NoResponse

Deliver(t, node, out) == DeliverFrom(t, trav[t].state, node, out)

RunClassifier(t) ==
    /\ trav[t].pc = "classifier"
    /\ \E llm \in ClassifierAnswers :
          Deliver(t, "classifier", classifier_agent(trav[t].state, hasKey, llm))
    /\ UNCHANGED <<known, hasKey, noneOnEmpty, rIn, rOut>>
    /\ resp' = NoResponse

RunResearch(t) ==
    /\ trav[t].pc = "research"
    /\ \E llm \in PlainAnswers :
          Deliver(t, "research", research_agent(trav[t].state, hasKey, llm))
    /\ UNCHANGED <<known, hasKey, noneOnEmpty, rIn, rOut>>
    /\ resp' = NoResponse

RunDesign(t) ==
    /\ trav[t].pc = "design"
    /\ \E llm \in PlainAnswers :
          Deliver(t, "design", design_agent(trav[t].state, hasKey, llm))
    /\ UNCHANGED <<known, hasKey, noneOnEmpty, rIn, rOut>>
    /\ resp' = NoResponse

RunCodeGenerator(t) ==
    /\ trav[t].pc = "code_generator"
    /\ \E llm \in FileAnswers :
          Deliver(t, "code_generator", code_generator_agent(trav[t].state, hasKey, llm))
    /\ UNCHANGED <<known, hasKey, noneOnEmpty, rIn, rOut>>
    /\ resp' = NoResponse

RunFileOrganizer(t) ==
    /\ trav[t].pc = "file_organizer"
    /\ Deliver(t, "file_organizer", file_organizer_agent(trav[t].state))
    /\ UNCHANGED <<known, hasKey, noneOnEmpty, rIn, rOut>>
    /\ resp' = NoResponse

RunQa(t) ==
    /\ trav[t].pc = "qa"
    /\ \E llm \in PlainAnswers :
          Deliver(t, "qa", qa_agent(trav[t].state, hasKey, llm))
    /\ UNCHANGED <<known, hasKey, noneOnEmpty, rIn, rOut>>
    /\ resp' = NoResponse

RunRefinement(t) ==
    /\ trav[t].pc = "refinement"
    /\ \E llm \in FileAnswers :
          Deliver(t, "refinement", refinement_agent(trav[t].state, hasKey, llm))
    /\ UNCHANGED <<known, hasKey, noneOnEmpty, rIn, rOut>>
    /\ resp' = NoResponse

\* astream is exhausted: the final event reads the stored dict
Complete(t) ==
    /\ trav[t].pc = "end"
    /\ trav' = [trav EXCEPT
                   ![t].pc = "done",
                   ![t].after = Get(store[trav[t].key], "iteration_count", 0),
                   ![t].events = Append(@,
                       CompleteEvent(Get(store[trav[t].key], "current_files", NoFiles)))]
    /\ UNCHANGED <<store, known, hasKey, noneOnEmpty, writer, interleaved, rIn, rOut>>
    /\ resp' = NoResponse

\* the files a caller of /execute may send; None and {} are both falsy and both
\* stand as the empty dict
RequestFiles == {EmptyDict, FilesOf({MAINJSX}, "request")}

\* what POST /execute answers; it reads PROJECT_STATES st and writes nothing
ExecuteResult(st, k, files) ==
    LET found == IF DOMAIN files # {} THEN files
                 ELSE IF k \in DOMAIN st THEN Get(st[k], "current_files", EmptyDict)
                 ELSE files
    IN  IF DOMAIN found = {}
        THEN [status |-> 400, body |-> EmptyDict]
        ELSE [status |-> 200,
              body |-> [status |-> "executed", files_count |-> Cardinality(DOMAIN found)]]

\* an /execute handler that takes the project out of the registry when it has
\* read its files (PROJECT_STATES.pop)
execute_project_Pops(k, files) ==
    LET r == ExecuteResult(store, k, files)
    IN  /\ k \in DOMAIN store => k \in known
        /\ resp' = Response("execute", k, r.status, r.body)
        /\ store' = [x \in (DOMAIN store) \ {k} |-> store[x]]
        /\ UNCHANGED <<trav, known, hasKey, noneOnEmpty, writer, interleaved, rIn, rOut>>

\* POST /execute; a caller has the id of a stored project only from an init
\* notification
execute_project(k, files) ==
    LET r == ExecuteResult(store, k, files)
    IN  /\ k \in DOMAIN store => k \in known
        /\ resp' = Response("execute", k, r.status, r.body)
        /\ UNCHANGED <<store, trav, known, hasKey, noneOnEmpty, writer, interleaved,
                       rIn, rOut>>

\* The consumer of the stream disconnects after a notification: the response
\* task is cancelled and event_generator is closed where it is suspended, so
\* neither its astream loop nor its final event runs any further.
Disconnect(t) ==
    /\ trav[t].pc \in {"started", "end"} \cup Nodes
    /\ trav' = [trav EXCEPT ![t].pc = "closed", ![t].state = EmptyDict]
    /\ UNCHANGED <<store, known, hasKey, noneOnEmpty, writer, interleaved, rIn, rOut>>
    /\ resp' = NoResponse

\* The callers of Spec generate projects and refine the projects whose id an
\* init notification has given them.
Next ==
    \/ \E prompt \in Prompts : generate_project(prompt)
    \/ \E k \in known, feedback \in FeedbackTexts : refine_project(k, feedback)
    \/ \E t \in DOMAIN trav : Disconnect(t)
    \/ \E t \in DOMAIN trav : StartStream(t)
    \/ \E t \in DOMAIN trav : Begin(t)
    \/ \E t \in DOMAIN trav : RunClassifier(t)
    \/ \E t \in DOMAIN trav : RunResearch(t)
    \/ \E t \in DOMAIN trav : RunDesign(t)
    \/ \E t \in DOMAIN trav : RunCodeGenerator(t)
    \/ \E t \in DOMAIN trav : RunFileOrganizer(t)
    \/ \E t \in DOMAIN trav : RunQa(t)
    \/ \E t \in DOMAIN trav : RunRefinement(t)
    \/ \E t \in DOMAIN trav : Complete(t)

Spec == Init /\ [][Next]_vars

\* The callers of SpecApi also ask for the status of projects and for their
\* execution, and call /refine, /status and /execute with ids that no project
\* has; they read their streams and do not disconnect.
NextApi ==
    \/ \E prompt \in Prompts : generate_project(prompt)
    \/ \E t \in DOMAIN trav : StartStream(t)
    \/ \E t \in DOMAIN trav : Begin(t)
    \/ \E t \in DOMAIN trav : RunClassifier(t)
    \/ \E t \in DOMAIN trav : RunResearch(t)
    \/ \E t \in DOMAIN trav : RunDesign(t)
    \/ \E t \in DOMAIN trav : RunCodeGenerator(t)
    \/ \E t \in DOMAIN trav : RunFileOrganizer(t)
    \/ \E t \in DOMAIN trav : RunQa(t)
    \/ \E t \in DOMAIN trav : RunRefinement(t)
    \/ \E t \in DOMAIN trav : Complete(t)
    \/ \E k \in Keys, feedback \in FeedbackTexts : refine_project(k, feedback)
    \/ \E k \in Keys : get_status(k)
    \/ \E k \in Keys, files \in RequestFiles : execute_project(k, files)

SpecApi == Init /\ [][NextApi]_vars

(***************************************************************************)
(* The routing functions on their own: route_start and route_classifier    *)
(* applied to every state dict over the keys that they read.               *)
(***************************************************************************)
FeedbackInputs ==
    {EmptyDict} \cup {Dict1("user_feedback", v) : v \in {None} \cup FeedbackTexts}

ClassificationDicts ==
    {c \in UNION {[D -> UserLevels \cup Complexities] :
                     D \in SUBSET {"user_level", "complexity"}} :
        /\ "user_level" \in DOMAIN c => c["user_level"] \in UserLevels
        /\ "complexity" \in DOMAIN c => c["complexity"] \in Complexities}

ClassificationInputs ==
    {EmptyDict} \cup {Dict1("classification", c) : c \in ClassificationDicts}

RouteInputs == {Update(f, c) : f \in FeedbackInputs, c \in ClassificationInputs}

InitRoute ==
    /\ store = EmptyDict
    /\ trav = <<>>
    /\ known = {}
    /\ hasKey = TRUE
    /\ noneOnEmpty = FALSE
    /\ writer = [k \in Keys |-> 0]
    /\ interleaved = [k \in Keys |-> FALSE]
    /\ rIn \in RouteInputs
    /\ rOut = NoRoute
    /\ resp = NoResponse

ApplyRouteStart ==
    /\ rOut.start = "-"
    /\ rOut' = [rOut EXCEPT !.start = route_start(rIn)]
    /\ UNCHANGED <<store, trav, known, hasKey, noneOnEmpty, writer, interleaved, rIn>>
    /\ resp' = NoResponse

ApplyRouteClassifier ==
    /\ rOut.classifier = "-"
    /\ rOut' = [rOut EXCEPT !.classifier = route_classifier(rIn)]
    /\ UNCHANGED <<store, trav, known, hasKey, noneOnEmpty, writer, interleaved, rIn>>
    /\ resp' = NoResponse

NextRoute == ApplyRouteStart \/ ApplyRouteClassifier

SpecRoute == InitRoute /\ [][NextRoute]_vars

\* the classification dict that route_classifier is given in rIn
RoutedClassification == Get(rIn, "classification", EmptyDict)

\* C1: at the entry node the next node is refinement exactly when user_feedback
\* is a non-empty string; with user_feedback absent, None or "" it is classifier.
C1_EntryRoutesByFeedback ==
    rOut.start # "-" =>
        LET nonEmpty == "user_feedback" \in DOMAIN rIn
                        /\ rIn["user_feedback"] \in FeedbackTexts \ {""}
        IN  /\ rOut.start = "refinement" <=> nonEmpty
            /\ ~nonEmpty => rOut.start = "classifier"

C1_Witness ==
    /\ rOut.start = "refinement"
    /\ "user_feedback" \in DOMAIN rIn
    /\ rIn["user_feedback"] = "blue"

\* C2: at the classify branch the next node is research when user_level is
\* beginner or complexity is complex, and code_generator otherwise.
C2_ClassifyRoutesByLevelOrComplexity ==
    rOut.classifier # "-" =>
        LET c == RoutedClassification
            novice == "user_level" \in DOMAIN c /\ c["user_level"] = "beginner"
            complex == "complexity" \in DOMAIN c /\ c["complexity"] = "complex"
        IN  rOut.classifier = IF novice \/ complex THEN "research" ELSE "code_generator"

C2_Witness ==
    /\ rOut.classifier = "code_generator"
    /\ DOMAIN RoutedClassification = {"user_level", "complexity"}
    /\ RoutedClassification["user_level"] = "advanced"
    /\ RoutedClassification["complexity"] = "simple"

\* C3: a classification without user_level is treated as a novice one: the
\* classify branch routes it to research.
C3_MissingLevelRoutesToResearch ==
    (/\ rOut.classifier # "-"
     /\ "classification" \in DOMAIN rIn
     /\ "user_level" \notin DOMAIN RoutedClassification)
        => rOut.classifier = "research"

(***************************************************************************)
(* Claims about traversals, checked under Spec.                            *)
(***************************************************************************)
InitEmitted(t) == Len(trav[t].events) > 0
CompleteEmitted(t) == trav[t].pc = "done"
CompleteFiles(t) == trav[t].events[Len(trav[t].events)].files

\* C4: after refine(K, non-empty feedback) has emitted complete, with no other
\* call touching K, the stored iteration_count is its value before the call plus 1.
C4_RefineAddsExactlyOne ==
    \A t \in DOMAIN trav :
        (/\ trav[t].kind = "refine"
         /\ Truthy(trav[t].feedback)
         /\ CompleteEmitted(t)
         /\ trav[t].alone)
            => trav[t].after = trav[t].before + 1

\* C6: when a stage's patch carries current_files, every file that is stored but
\* absent from the patch's current_files is still stored, with the same content,
\* after the patch is merged.
C6_MergeKeepsAbsentFiles ==
    [][\A t \in DOMAIN trav :
          (/\ trav[t].pc \in {"code_generator", "file_organizer", "refinement"}
           /\ trav'[t].pc \notin {trav[t].pc, "failed", "closed"})
             => LET k == trav[t].key
                    patchFiles == trav'[t].state["current_files"]
                    old == store[k]["current_files"]
                    new == store'[k]["current_files"]
                IN  \A f \in DOMAIN old :
                        f \notin DOMAIN patchFiles
                            => (f \in DOMAIN new /\ new[f] = old[f])]_vars

\* C7: a stage that fails internally is absorbed: no exception of a stage
\* leaves the executor.
C7_StageFailureAbsorbed ==
    \A t \in DOMAIN trav : trav[t].error # "stage"

\* C8: a traversal that has emitted init and not yet complete is still running
\* (or its consumer has disconnected): it never ends without complete.
C8_InitLeadsToComplete ==
    \A t \in DOMAIN trav :
        (InitEmitted(t) /\ ~CompleteEmitted(t))
            => trav[t].pc \in {"started", "end", "closed"} \cup Nodes

\* C9: the complete notification of every traversal carries a non-empty
\* files mapping.
C9_CompleteHasFiles ==
    \A t \in DOMAIN trav :
        CompleteEmitted(t) => DOMAIN CompleteFiles(t) # {}

\* C10: the patches of two traversals on the same key are never interleaved
\* in the store.
C10_NoInterleavedPatches ==
    \A k \in Keys : ~interleaved[k]

\* the node names of the progress notifications of traversal t, in order
ProgressNodes(t) ==
    LET IsProgress(e) == e.type = "progress"
        p == SelectSeq(trav[t].events, IsProgress)
    IN  [i \in 1..Len(p) |-> p[i].node]

Occurs(x, seq) == \E i \in 1..Len(seq) : seq[i] = x

\* seq is an initial part of full
IsPrefix(seq, full) ==
    Len(seq) <= Len(full) /\ seq = SubSeq(full, 1, Len(seq))

\* in seq, design stands at a position exactly when research stands just before
DesignFollowsResearch(seq) ==
    \A i \in 1..Len(seq) :
        seq[i] = "design" <=> (i > 1 /\ seq[i - 1] = "research")

\* the two routes of a traversal without feedback
InitialRoutes ==
    {<<"classifier", "code_generator", "file_organizer", "qa">>,
     <<"classifier", "research", "design", "code_generator", "file_organizer", "qa">>}

\* C11: a /generate traversal that no other call disturbs and that has emitted
\* complete has sent the progress notifications classifier, then optionally
\* research and design, then code_generator, file_organizer, qa, and no other.
C11_InitialProgressOrder ==
    \A t \in DOMAIN trav :
        (trav[t].kind = "generate" /\ trav[t].alone /\ CompleteEmitted(t))
            => ProgressNodes(t) \in InitialRoutes

\* the two routes of a traversal without feedback, entry node included
InitialRoutesFromRouter == {<<"router">> \o r : r \in InitialRoutes}

\* C11 as amended: the progress notifications of a /generate traversal that no
\* other call disturbs are, in order, an initial part of router, classifier,
\* then optionally research and design, then code_generator, file_organizer,
\* qa, and complete is emitted only after the whole of such a sequence.
C11_InitialProgressOrderFromRouter ==
    \A t \in DOMAIN trav :
        (trav[t].kind = "generate" /\ trav[t].alone)
            => /\ \E r \in InitialRoutesFromRouter : IsPrefix(ProgressNodes(t), r)
               /\ CompleteEmitted(t) => ProgressNodes(t) \in InitialRoutesFromRouter

C11_Witness ==
    \E t \in DOMAIN trav :
        /\ trav[t].kind = "generate"
        /\ trav[t].alone
        /\ CompleteEmitted(t)
        /\ ProgressNodes(t) = <<"router", "classifier", "research", "design",
                                "code_generator", "file_organizer", "qa">>

\* C12: when the classifier has returned a classification that is neither
\* beginner nor complex, the next node is code_generator, and a traversal in
\* which code_generator follows classifier neither runs research or design nor
\* sends a progress notification for them; in every traversal design runs at a
\* position exactly when research ran just before it.
C12_DirectRouteToGenerate ==
    \A t \in DOMAIN trav :
        LET ran == trav[t].ran
            n == Len(ran)
        IN  /\ (n > 0 /\ ran[n] = "classifier" /\ trav[t].pc \in Nodes)
                => LET c == trav[t].state["classification"]
                   IN  (c.user_level # "beginner" /\ c.complexity # "complex")
                           => trav[t].pc = "code_generator"
            /\ (\E i \in 1..(n - 1) :
                    ran[i] = "classifier" /\ ran[i + 1] = "code_generator")
                => \A x \in {"research", "design"} :
                       ~Occurs(x, ran) /\ ~Occurs(x, ProgressNodes(t))
            /\ DesignFollowsResearch(ran)
            /\ DesignFollowsResearch(ProgressNodes(t))

C12_Witness ==
    \E t \in DOMAIN trav :
        /\ trav[t].kind = "generate"
        /\ CompleteEmitted(t)
        /\ trav[t].ran = <<"router", "classifier", "code_generator", "file_organizer", "qa">>
        /\ store[trav[t].key]["classification"] =
               [user_level |-> "intermediate", complexity |-> "medium"]

\* C13: a /refine traversal with non-empty feedback that no other call disturbs
\* and that has emitted complete has sent exactly the progress notifications
\* refinement, file_organizer, qa, and has run none of classifier, research,
\* design and code_generator.
C13_RefineProgressOrder ==
    \A t \in DOMAIN trav :
        (/\ trav[t].kind = "refine"
         /\ Truthy(trav[t].feedback)
         /\ trav[t].alone
         /\ CompleteEmitted(t))
            => /\ ProgressNodes(t) = <<"refinement", "file_organizer", "qa">>
               /\ \A x \in {"classifier", "research", "design", "code_generator"} :
                      ~Occurs(x, trav[t].ran)

\* C13 as amended: the progress notifications of a /refine traversal with
\* non-empty feedback that no other call disturbs are, in order, an initial
\* part of router, refinement, file_organizer, qa; complete is emitted only
\* after all four; and the traversal runs none of classifier, research, design
\* and code_generator.
C13_RefineProgressOrderFromRouter ==
    \A t \in DOMAIN trav :
        (/\ trav[t].kind = "refine"
         /\ Truthy(trav[t].feedback)
         /\ trav[t].alone)
            => LET route == <<"router", "refinement", "file_organizer", "qa">>
               IN  /\ IsPrefix(ProgressNodes(t), route)
                   /\ CompleteEmitted(t) => ProgressNodes(t) = route
                   /\ \A x \in {"classifier", "research", "design", "code_generator"} :
                          ~Occurs(x, trav[t].ran)

C13_Witness ==
    \E t \in DOMAIN trav :
        /\ trav[t].kind = "refine"
        /\ trav[t].feedback = "blue"
        /\ trav[t].alone
        /\ CompleteEmitted(t)
        /\ ProgressNodes(t) = <<"router", "refinement", "file_organizer", "qa">>

\* how many notifications of traversal t have this type
CountType(t, type) ==
    LET Is(e) == e.type = type
    IN  Len(SelectSeq(trav[t].events, Is))

\* C14: the stream of a traversal starts with its only init, its progress
\* notifications name the nodes in the order they ran, none twice, complete is
\* emitted at most once and last, and a stream that has ended without its
\* consumer disconnecting has emitted exactly one complete.
C14_StreamWellFormed ==
    \A t \in DOMAIN trav :
        LET ev == trav[t].events
            pn == ProgressNodes(t)
        IN  Len(ev) > 0 =>
                /\ ev[1].type = "init"
                /\ CountType(t, "init") = 1
                /\ IsPrefix(pn, trav[t].ran)
                /\ \A i, j \in 1..Len(pn) : pn[i] = pn[j] => i = j
                /\ CountType(t, "complete") <= 1
                /\ \A i \in 1..Len(ev) : ev[i].type = "complete" => i = Len(ev)
                /\ trav[t].pc \in {"done", "failed"} => CountType(t, "complete") = 1

\* C15: in every traversal, when a node's patch carries current_files, the
\* notification that the stream sends last for it is a files notification with
\* the current_files stored after the patch.
C15_FilesAfterArtifactPatch ==
    [][\A t \in DOMAIN trav :
          Len(trav'[t].patched) > Len(trav[t].patched)
             => LET ev == trav'[t].events
                    e == ev[Len(ev)]
                IN  /\ e.type = "files"
                    /\ e.files = store'[trav[t].key]["current_files"]]_vars

\* C16: the complete notification of a traversal carries the current_files of
\* the last patch of that traversal that carried current_files.
C16_CompleteCarriesFinalArtifacts ==
    \A t \in DOMAIN trav :
        CompleteEmitted(t)
            => /\ Len(trav[t].patched) > 0
               /\ CompleteFiles(t) = trav[t].patched[Len(trav[t].patched)]

\* C17: a /refine call on a project id that is not stored answers 404, starts
\* no traversal, emits no notification and leaves the whole registry as it was.
C17_RefineUnknownRejected ==
    [][\A k \in Keys :
          (resp'.op = "refine" /\ resp'.key = k /\ k \notin DOMAIN store)
             => /\ resp'.status = 404
                /\ store' = store
                /\ trav' = trav]_vars

C17_Witness ==
    /\ resp.op = "refine"
    /\ resp.status = 404
    /\ resp.key \notin DOMAIN store
    /\ \E t \in DOMAIN trav : trav[t].pc \in Nodes

\* C18: GET /status on a project id that is not stored answers 404 and leaves
\* the whole registry as it was.
C18_StatusUnknownNotFound ==
    [][\A k \in Keys :
          (resp'.op = "status" /\ resp'.key = k /\ k \notin DOMAIN store)
             => /\ resp'.status = 404
                /\ store' = store]_vars

C18_Witness ==
    /\ resp.op = "status"
    /\ resp.status = 404
    /\ resp.key \notin DOMAIN store
    /\ DOMAIN store # {}

\* C19: GET /status on a stored project id leaves the stored dict of that id
\* as it was, keys and values, and answers with that stored dict.
C19_StatusReadOnly ==
    [][\A k \in Keys :
          (resp'.op = "status" /\ resp'.key = k /\ k \in DOMAIN store)
             => /\ store'[k] = store[k]
                /\ resp'.body = store[k]]_vars

\* C20: a traversal whose consumer has disconnected is not left short of the
\* terminal node: once its stream is closed and takes no further step, every
\* node up to the last one, qa, has run.
C20_DisconnectedRunsToEnd ==
    \A t \in DOMAIN trav :
        trav[t].pc = "closed"
            => (Len(trav[t].ran) > 0 /\ trav[t].ran[Len(trav[t].ran)] = "qa")

\* the longest path of define_graph
LongestRoute == <<"router", "classifier", "research", "design", "code_generator",
                  "file_organizer", "qa">>

\* C21: in every traversal no node runs more than once, the nodes run one
\* after the other (the traversal is at one node, or at the end, at a time),
\* and the end is reached after at most 7 node executions, the last being qa.
C21_AcyclicSequential ==
    \A t \in DOMAIN trav :
        LET ran == trav[t].ran
        IN  /\ \A i, j \in 1..Len(ran) : ran[i] = ran[j] => i = j
            /\ \A i \in 1..Len(ran) : ran[i] \in Nodes
            /\ Len(ran) <= Len(LongestRoute)
            /\ trav[t].pc \in Nodes => ~Occurs(trav[t].pc, ran)
            /\ trav[t].pc \in {"end", "done"} => ran[Len(ran)] = "qa"

C21_Witness ==
    \E t \in DOMAIN trav :
        trav[t].pc = "end" /\ trav[t].ran = LongestRoute

\* the structured records of ProjectState and the node that returns each
Records == {"classification", "research_context", "design_spec", "execution_results"}
RecordWriter(field) ==
    CASE field = "classification" -> "classifier"
      [] field = "research_context" -> "research"
      [] field = "design_spec" -> "design"
      [] field = "execution_results" -> "qa"

\* C23: a patch that carries one of the structured records comes from the one
\* node that owns it (classification from classifier, research_context from
\* research, design_spec from design, execution_results from qa), no patch
\* carries original_prompt, and no step changes the original_prompt stored
\* for a project.
C23_SingleWriterPerRecord ==
    /\ [](\A t \in DOMAIN trav :
            /\ \A field \in trav[t].patchKeys \cap Records :
                   trav[t].ran[Len(trav[t].ran)] = RecordWriter(field)
            /\ "original_prompt" \notin trav[t].patchKeys)
    /\ [][\A k \in DOMAIN store :
             /\ k \in DOMAIN store'
             /\ store'[k]["original_prompt"] = store[k]["original_prompt"]]_vars

C23_Witness ==
    \E t \in DOMAIN trav :
        /\ trav[t].kind = "refine"
        /\ trav[t].feedback = "blue"
        /\ CompleteEmitted(t)
        /\ Records \subseteq DOMAIN store[trav[t].key]

\* whether a file name ends with suffix
EndsWith(k, suffix) ==
    Len(k) >= Len(suffix) /\ SubSeq(k, Len(k) - Len(suffix) + 1, Len(k)) = suffix

\* C25: after a /refine traversal that no other call disturbs has emitted
\* complete, the stored user_feedback of its project is empty again.
C25_FeedbackClearedAfterRefine ==
    \A t \in DOMAIN trav :
        (trav[t].kind = "refine" /\ trav[t].alone /\ CompleteEmitted(t))
            => ~Truthy(Get(store[trav[t].key], "user_feedback", None))

\* C28: the complete notification of a /generate traversal that no other call
\* disturbs carries at least one file whose name ends with package.json.
C28_CompleteHasManifest ==
    \A t \in DOMAIN trav :
        (trav[t].kind = "generate" /\ trav[t].alone /\ CompleteEmitted(t))
            => \E f \in DOMAIN CompleteFiles(t) : EndsWith(f, PKG)

\* C29: POST /execute answers 404 for a project id that is not stored; for a
\* stored project it answers 400 when the request has no files and the stored
\* current_files are empty; and when the request has files, files_count is
\* their number, whatever is stored.
C29_ExecuteAnswers ==
    [][\A k \in Keys, files \in RequestFiles :
          (execute_project(k, files) /\ resp'.op = "execute" /\ resp'.key = k)
             => /\ k \notin DOMAIN store => resp'.status = 404
                /\ (/\ k \in DOMAIN store
                    /\ DOMAIN files = {}
                    /\ DOMAIN Get(store[k], "current_files", EmptyDict) = {})
                       => resp'.status = 400
                /\ (k \in DOMAIN store /\ DOMAIN files # {})
                       => /\ resp'.status = 200
                          /\ resp'.body.files_count = Cardinality(DOMAIN files)]_vars

\* the project ids that /generate calls have returned
Issued == {trav[t].key : t \in {u \in DOMAIN trav : trav[u].kind = "generate"}}

\* C27: a project's state is in the store from the moment the /generate call
\* returns (its stream not yet read) and no /generate, /refine, /status or
\* /execute step deletes a stored key; once a key has been issued, /status
\* and /refine on it never answer 404.
C27_IssuedKeysStay ==
    /\ [](Issued \subseteq DOMAIN store)
    /\ [][/\ DOMAIN store \subseteq DOMAIN store'
          /\ (resp'.op \in {"status", "refine"} /\ resp'.key \in Issued)
                => resp'.status # 404]_vars

\* a /status call has answered 200 for an issued key whose /generate
\* traversal is between two stages, while the stream of another /generate
\* call has not been read yet
C27_Witness ==
    \E t, u \in DOMAIN trav :
        /\ trav[t].kind = "generate"
        /\ trav[t].pc \in {"classifier", "research", "design", "code_generator",
                           "file_organizer", "qa"}
        /\ resp.op = "status" /\ resp.key = trav[t].key /\ resp.status = 200
        /\ trav[u].kind = "generate" /\ trav[u].pc = "created"
        /\ trav[u].key \in DOMAIN store

(***************************************************************************)
(* Calls on a project that exists: SpecStored starts where one /generate   *)
(* call has been streamed to its complete notification with no other call  *)
(* on its key, and takes up to MaxCalls /refine calls from there.          *)
(***************************************************************************)
OkAnswer == [ok |-> TRUE, user_level |-> None, complexity |-> None, files |-> EmptyDict]

\* the stored dict after an undisturbed /generate traversal with these answers
GenerateRun(prompt, cAns, fAns) ==
    LET s0 == initial_state(prompt)
        s1 == Update(s0, classifier_agent(s0, TRUE, cAns).patch)
        researched == route_classifier(s1) = "research"
        s2 == IF researched
              THEN Update(s1, research_agent(s1, TRUE, OkAnswer).patch)
              ELSE s1
        s3 == IF researched
              THEN Update(s2, design_agent(s2, TRUE, OkAnswer).patch)
              ELSE s2
        s4 == Update(s3, code_generator_agent(s3, TRUE, fAns).patch)
        s5 == Update(s4, file_organizer_agent(s4).patch)
    IN  Update(s5, qa_agent(s5, TRUE, OkAnswer).patch)

StoredProjects ==
    {GenerateRun(p, c, f) : p \in Prompts, c \in ClassifierAnswers, f \in FileAnswers}

InitStored ==
    /\ store \in {[k \in {1} |-> s] : s \in StoredProjects}
    /\ trav = <<>>
    /\ known = {1}
    /\ hasKey = TRUE
    /\ noneOnEmpty \in BOOLEAN
    /\ writer = [k \in Keys |-> 0]
    /\ interleaved = [k \in Keys |-> FALSE]
    /\ rIn = EmptyDict
    /\ rOut = NoRoute
    /\ resp = NoResponse

NextStored ==
    \/ \E k \in known, feedback \in FeedbackTexts : refine_project(k, feedback)
    \/ \E t \in DOMAIN trav : StartStream(t)
    \/ \E t \in DOMAIN trav : Begin(t)
    \/ \E t \in DOMAIN trav : RunClassifier(t)
    \/ \E t \in DOMAIN trav : RunResearch(t)
    \/ \E t \in DOMAIN trav : RunDesign(t)
    \/ \E t \in DOMAIN trav : RunCodeGenerator(t)
    \/ \E t \in DOMAIN trav : RunFileOrganizer(t)
    \/ \E t \in DOMAIN trav : RunQa(t)
    \/ \E t \in DOMAIN trav : RunRefinement(t)
    \/ \E t \in DOMAIN trav : Complete(t)

SpecStored == InitStored /\ [][NextStored]_vars

\* the first state of SpecStored is a state of Spec: the stored dict of a
\* /generate traversal that has completed alone is one of StoredProjects
StoredProjectsAreGenerated ==
    \A t \in DOMAIN trav :
        (trav[t].kind = "generate" /\ CompleteEmitted(t) /\ trav[t].alone
         /\ Len(trav) = 1)
            => store[trav[t].key] \in StoredProjects

\* C5: under two overlapping refine calls with non-empty feedback on one key,
\* iteration_count never decreases, and when both traversals have emitted
\* complete it is exactly 2 higher than before the two calls.
C5_TwoRefinesAddExactlyTwo ==
    [][/\ store'[1]["iteration_count"] >= store[1]["iteration_count"]
       /\ (/\ Len(trav') = 2
           /\ \A t \in DOMAIN trav' :
                 /\ trav'[t].pc = "done"
                 /\ trav'[t].kind = "refine"
                 /\ Truthy(trav'[t].feedback))
             => store'[1]["iteration_count"] = 2]_vars

\* C22: over any sequence of calls on a project, no step lowers or resets the
\* stored iteration_count.
C22_CountNeverDecreases ==
    [][\A k \in DOMAIN store :
          store'[k]["iteration_count"] >= store[k]["iteration_count"]]_vars

\* C24: over any sequence of /refine calls on a generated project, a file name
\* once in the stored current_files stays in it.
C24_FilesNeverRemoved ==
    [][\A k \in DOMAIN store :
          DOMAIN store[k]["current_files"] \subseteq
              DOMAIN store'[k]["current_files"]]_vars


(***************************************************************************)
(* Two projects side by side: SpecKeys starts where one /generate call has *)
(* been streamed to its complete notification on key 1, and takes /generate *)
(* calls (on a new key), /refine and /status calls and the steps of their   *)
(* streams from there, in every interleaving.                               *)
(***************************************************************************)
FirstProject == GenerateRun("build a counter", LLMFail, LLMFail)

InitKeys ==
    /\ store = [k \in {1} |-> FirstProject]
    /\ trav = <<>>
    /\ known = {1}
    /\ hasKey = TRUE
    /\ noneOnEmpty \in BOOLEAN
    /\ writer = [k \in Keys |-> 0]
    /\ interleaved = [k \in Keys |-> FALSE]
    /\ rIn = EmptyDict
    /\ rOut = NoRoute
    /\ resp = NoResponse

NextKeys ==
    \/ \E prompt \in Prompts : generate_project(prompt)
    \/ \E k \in known, feedback \in FeedbackTexts : refine_project(k, feedback)
    \/ \E k \in known : get_status(k)
    \/ \E t \in DOMAIN trav : StartStream(t)
    \/ \E t \in DOMAIN trav : Begin(t)
    \/ \E t \in DOMAIN trav : RunClassifier(t)
    \/ \E t \in DOMAIN trav : RunResearch(t)
    \/ \E t \in DOMAIN trav : RunDesign(t)
    \/ \E t \in DOMAIN trav : RunCodeGenerator(t)
    \/ \E t \in DOMAIN trav : RunFileOrganizer(t)
    \/ \E t \in DOMAIN trav : RunQa(t)
    \/ \E t \in DOMAIN trav : RunRefinement(t)
    \/ \E t \in DOMAIN trav : Complete(t)

SpecKeys == InitKeys /\ [][NextKeys]_vars

\* the project ids a step works on: the id its handler was called with, or the
\* id of the traversal whose stream took the step
StepKeys ==
    IF resp' # NoResponse
    THEN {resp'.key}
    ELSE {trav[t].key : t \in {u \in DOMAIN trav : trav'[u] # trav[u]}}

\* C26: projects share no state.  Whenever a step changes the stored state of
\* a key K2, the step is a /refine or /status call on K2 or a step of the
\* stream of a traversal on K2: no /generate, /refine or /status call on
\* another key K1 and no stage patch of a traversal on K1 changes it, and a
\* /generate call changes the state of no key that existed before it.
C26_KeysShareNoState ==
    [][\A k2 \in DOMAIN store :
          /\ k2 \in DOMAIN store'
          /\ store'[k2] # store[k2] => (StepKeys = {k2} /\ resp'.op # "generate")]_vars

\* both projects are stored with a traversal in flight each, and each
\* traversal has written a stage patch to its own project
C26_Witness ==
    \E t1, t2 \in DOMAIN trav :
        /\ trav[t1].key = 1 /\ trav[t1].kind = "refine"
        /\ trav[t2].key = 2 /\ trav[t2].kind = "generate"
        /\ trav[t1].wrote /\ trav[t2].wrote
        /\ trav[t1].pc \notin {"end", "failed", "closed", "done"}
        /\ trav[t2].pc \notin {"end", "failed", "closed", "done"}
        /\ {1, 2} \subseteq DOMAIN store


(***************************************************************************)
(* The GitHub OAuth callback (api/routes/auth.py, services/github_oauth.py) *)
(* SpecAuth takes callback requests one after the other; rIn holds the      *)
(* request and what GitHub answered to it, resp the handler's response.     *)
(***************************************************************************)
AuthCodes == {"", "code-1"}

\* what the POST to github.com/login/oauth/access_token comes back with: an
\* HTTP reply (status, whether the JSON has "error", its access_token), a
\* connection error (aiohttp.ClientError) or a timeout (asyncio.TimeoutError)
TokenReplies ==
    [kind : {"reply"}, status : {200, 500}, error : BOOLEAN, token : {"", "tok"}]
      \cup {[kind |-> x, status |-> 0, error |-> FALSE, token |-> ""] :
                x \in {"client_error", "timeout"}}

\* what the GET of api.github.com/user comes back with (the user id by its
\* decimal digits)
UserReplies ==
    [kind : {"reply"}, status : {200, 403}, id : {None, "7"}, login : {None, "octo"}]
      \cup {[kind |-> x, status |-> 0, id |-> None, login |-> None] :
                x \in {"client_error", "timeout"}}

\* str() of a starlette HTTPException(400, detail): empty where the class
\* passes no args to Exception, "400: <detail>" where it defines __str__
HTTPExceptionStrs == {"", "400: Authorization code is required"}

Raised(message) == [raised |-> TRUE, message |-> message, value |-> None]
Returned(value) == [raised |-> FALSE, message |-> "", value |-> value]

get_github_access_token(reply) ==
    CASE reply.kind = "client_error" -> Raised("GitHub connection error: reset")
      [] reply.kind = "timeout" -> Raised("")
      [] reply.status # 200 -> Raised("GitHub token exchange failed: 500")
      [] reply.error -> Raised("GitHub error: bad_verification_code")
      [] reply.token = "" -> Raised("No access token in GitHub response")
      [] OTHER -> Returned(reply.token)

get_github_user(reply) ==
    CASE reply.kind = "client_error" -> Raised("GitHub connection error: reset")
      [] reply.kind = "timeout" -> Raised("")
      [] reply.status # 200 -> Raised("GitHub user fetch failed: 403")
      [] reply.id = None \/ reply.login = None ->
             Raised("validation error for GithubUser")
      [] OTHER -> Returned([id |-> reply.id, login |-> reply.login])

authenticate_github_user(tokenReply, userReply) ==
    LET access_token == get_github_access_token(tokenReply)
    IN  IF access_token.raised THEN access_token ELSE get_github_user(userReply)

\* what the callback answers: the HTTPException(400) for an empty code is
\* raised inside the try block, and the handler's except Exception turns it,
\* like every failure of the authentication, into a 401 with str(e) as detail
CallbackResult(code, tokenReply, userReply, httpStr) ==
    LET user == authenticate_github_user(tokenReply, userReply)
    IN  IF code = ""
        THEN [status |-> 401, body |-> [detail |-> httpStr]]
        ELSE IF user.raised
        THEN [status |-> 401, body |-> [detail |-> user.message]]
        ELSE [status |-> 200,
              body |-> [success |-> TRUE, user |-> user.value,
                        token |-> <<"github-", user.value.id>>]]

\* POST /auth/github/callback
github_callback(code, tokenReply, userReply, httpStr) ==
    LET r == CallbackResult(code, tokenReply, userReply, httpStr)
    IN  /\ rIn' = [code |-> code, token |-> tokenReply, user |-> userReply]
        /\ resp' = Response("github_callback", 0, r.status, r.body)
        /\ UNCHANGED <<store, trav, known, hasKey, noneOnEmpty, writer,
                       interleaved, rOut>>

InitAuth ==
    /\ store = EmptyDict
    /\ trav = <<>>
    /\ known = {}
    /\ hasKey = TRUE
    /\ noneOnEmpty = FALSE
    /\ writer = [k \in Keys |-> 0]
    /\ interleaved = [k \in Keys |-> FALSE]
    /\ rIn = EmptyDict
    /\ rOut = NoRoute
    /\ resp = NoResponse

NextAuth ==
    \E code \in AuthCodes, tokenReply \in TokenReplies, userReply \in UserReplies,
       httpStr \in HTTPExceptionStrs :
        github_callback(code, tokenReply, userReply, httpStr)

SpecAuth == InitAuth /\ [][NextAuth]_vars

\* C30: the callback answers 400 with "Authorization code is required" when
\* the code is empty and 401 carrying the error message when the
\* authentication of a non-empty code fails; 400 is answered for no request
\* with a code and 401 for no request without one.
C30_EmptyCodeIs400 ==
    resp.op = "github_callback" =>
        LET user == authenticate_github_user(rIn.token, rIn.user)
        IN  /\ rIn.code = "" =>
                /\ resp.status = 400
                /\ resp.body.detail = "Authorization code is required"
            /\ (rIn.code # "" /\ user.raised) =>
                /\ resp.status = 401
                /\ resp.body.detail = user.message
            /\ resp.status = 400 => rIn.code = ""
            /\ resp.status = 401 => rIn.code # ""


(***************************************************************************)
(* Code execution through Judge0 (services/judge0.py, api/routes/code.py). *)
(* A Python str is the sequence of its characters, so that lower(), strip() *)
(* and split(".") are computed on the text.                                *)
(***************************************************************************)
\* longest text drawn from Chars
MaxLen == 4

\* None where a str is expected, as a text
NoText == <<None>>

\* truth value of an Optional[str] text
TruthyText(t) == t # NoText /\ t # <<>>

Uppers == <<"A", "B", "C", "D", "E", "F", "G", "H", "I", "J", "K", "L", "M",
            "N", "O", "P", "Q", "R", "S", "T", "U", "V", "W", "X", "Y", "Z">>
Lowers == <<"a", "b", "c", "d", "e", "f", "g", "h", "i", "j", "k", "l", "m",
            "n", "o", "p", "q", "r", "s", "t", "u", "v", "w", "x", "y", "z">>

\* str.lower()
LowerChar(c) ==
    IF \E i \in 1..Len(Uppers) : Uppers[i] = c
    THEN Lowers[CHOOSE i \in 1..Len(Uppers) : Uppers[i] = c]
    ELSE c
Lower(t) == [i \in 1..Len(t) |-> LowerChar(t[i])]

\* str.strip()
Strip(t) ==
    LET inked == {i \in 1..Len(t) : t[i] \notin {" ", "\t", "\n"}}
    IN  IF inked = {}
        THEN <<>>
        ELSE LET first == CHOOSE i \in inked : \A j \in inked : i <= j
                 last == CHOOSE i \in inked : \A j \in inked : j <= i
             IN  SubSeq(t, first, last)

\* "." in t
HasDot(t) == \E i \in 1..Len(t) : t[i] = "."

\* t.split(".")[-1]
LastPart(t) ==
    LET dots == {i \in 1..Len(t) : t[i] = "."}
    IN  IF dots = {}
        THEN t
        ELSE SubSeq(t, (CHOOSE i \in dots : \A j \in dots : j <= i) + 1, Len(t))

LanguagePairs ==
    {<<<<"p", "y", "t", "h", "o", "n">>, 71>>,
     <<<<"p", "y", "t", "h", "o", "n", "3">>, 71>>,
     <<<<"p", "y">>, 71>>,
     <<<<"j", "a", "v", "a", "s", "c", "r", "i", "p", "t">>, 63>>,
     <<<<"j", "s">>, 63>>,
     <<<<"t", "y", "p", "e", "s", "c", "r", "i", "p", "t">>, 74>>,
     <<<<"t", "s">>, 74>>,
     <<<<"j", "a", "v", "a">>, 62>>,
     <<<<"c", "p", "p">>, 54>>,
     <<<<"c">>, 50>>,
     <<<<"c", "s", "h", "a", "r", "p">>, 51>>,
     <<<<"c", "#">>, 51>>,
     <<<<"r", "u", "b", "y">>, 72>>,
     <<<<"g", "o">>, 60>>,
     <<<<"r", "u", "s", "t">>, 73>>,
     <<<<"p", "h", "p">>, 68>>,
     <<<<"s", "w", "i", "f", "t">>, 85>>,
     <<<<"k", "o", "t", "l", "i", "n">>, 78>>,
     <<<<"r">>, 80>>,
     <<<<"b", "a", "s", "h">>, 46>>,
     <<<<"s", "h", "e", "l", "l">>, 46>>,
     <<<<"s", "q", "l">>, 82>>}

LanguageNames == {p[1] : p \in LanguagePairs}

LANGUAGE_ID_MAP ==
    [n \in LanguageNames |-> (CHOOSE p \in LanguagePairs : p[1] = n)[2]]

\* a get_language_id that looks the text up as it was typed
get_language_id_AsTyped(filename_or_language) ==
    IF ~TruthyText(filename_or_language)
    THEN 71
    ELSE LET identifier == Strip(filename_or_language)
             ext == LastPart(identifier)
         IN  IF identifier \in DOMAIN LANGUAGE_ID_MAP
             THEN LANGUAGE_ID_MAP[identifier]
             ELSE IF HasDot(identifier) /\ ext \in DOMAIN LANGUAGE_ID_MAP
             THEN LANGUAGE_ID_MAP[ext]
             ELSE 71

get_language_id(filename_or_language) ==
    IF ~TruthyText(filename_or_language)
    THEN 71
    ELSE LET identifier == Strip(Lower(filename_or_language))
             ext == Lower(LastPart(identifier))
         IN  IF identifier \in DOMAIN LANGUAGE_ID_MAP
             THEN LANGUAGE_ID_MAP[identifier]
             ELSE IF HasDot(identifier) /\ ext \in DOMAIN LANGUAGE_ID_MAP
             THEN LANGUAGE_ID_MAP[ext]
             ELSE 71

\* the characters the drawn texts are made of
Chars == {"p", "y", "P", "Y", "c", "C", "#", ".", " "}

RECURSIVE TextsOfLen(_)
TextsOfLen(n) ==
    IF n = 0
    THEN {<<>>}
    ELSE {Append(t, c) : t \in TextsOfLen(n - 1), c \in Chars}

\* the texts of the repository's tests and a few more of their kind
NamedTexts ==
    {<<"P", "Y", "T", "H", "O", "N">>,
     <<"J", "a", "v", "a", "S", "c", "r", "i", "p", "t">>,
     <<"S", "O", "L", "U", "T", "I", "O", "N", ".", "P", "Y">>,
     <<"M", "a", "i", "n", ".", "j", "a", "v", "a">>,
     <<"s", "c", "r", "i", "p", "t", ".", "r", "b">>,
     <<"u", "n", "k", "n", "o", "w", "n", "_", "l", "a", "n", "g">>,
     <<"a", ".", "t", "a", "r", ".", "t", "s">>,
     <<" ", "G", "o", "\n">>}

Texts == UNION {TextsOfLen(n) : n \in 0..MaxLen} \cup NamedTexts \cup {NoText}

\* SpecLang applies get_language_id to one text
NoLanguage == [language_id |-> 0]

InitLang ==
    /\ store = EmptyDict
    /\ trav = <<>>
    /\ known = {}
    /\ hasKey = TRUE
    /\ noneOnEmpty = FALSE
    /\ writer = [k \in Keys |-> 0]
    /\ interleaved = [k \in Keys |-> FALSE]
    /\ rIn \in {Dict1("filename_or_language", t) : t \in Texts}
    /\ rOut = NoLanguage
    /\ resp = NoResponse

ApplyGetLanguageId ==
    /\ rOut = NoLanguage
    /\ rOut' = [language_id |-> get_language_id(rIn["filename_or_language"])]
    /\ UNCHANGED <<store, trav, known, hasKey, noneOnEmpty, writer, interleaved, rIn>>
    /\ resp' = NoResponse

SpecLang == InitLang /\ [][ApplyGetLanguageId]_vars

\* the text after the last "." of t, read from the right end
RECURSIVE AfterLastDot(_)
AfterLastDot(t) ==
    IF t = <<>> \/ t[Len(t)] = "."
    THEN <<>>
    ELSE Append(AfterLastDot(SubSeq(t, 1, Len(t) - 1)), t[Len(t)])

\* C32: get_language_id is total and case-insensitive.  For every text x
\* (None and the empty text included) it returns LANGUAGE_ID_MAP of
\* lower(strip(x)) when that is a known name, else the id of the text after
\* the last "." when that is a known name, else 71; what it returns is a
\* positive id of the map or 71.
C32_LanguageIdByNameOrExtension ==
    rOut # NoLanguage =>
        LET x == rIn["filename_or_language"]
            name == Lower(Strip(IF x = NoText THEN <<>> ELSE x))
            ext == AfterLastDot(name)
            id == rOut.language_id
        IN  /\ id = IF name \in LanguageNames
                    THEN LANGUAGE_ID_MAP[name]
                    ELSE IF HasDot(name) /\ ext \in LanguageNames
                    THEN LANGUAGE_ID_MAP[ext]
                    ELSE 71
            /\ id \in Nat /\ id > 0
            /\ id = 71 \/ \E n \in LanguageNames : LANGUAGE_ID_MAP[n] = id

\* a file name in capitals whose extension names a language other than the
\* default has been looked up
C32_Witness ==
    /\ rOut # NoLanguage
    /\ rOut.language_id = 50
    /\ rIn["filename_or_language"] \notin LanguageNames
    /\ \E i \in 1..Len(rIn["filename_or_language"]) :
          rIn["filename_or_language"][i] = "C"
    /\ HasDot(rIn["filename_or_language"])


(***************************************************************************)
(* format_result: a Judge0 submission is a dict in which every key may be  *)
(* missing and every text may be None.                                     *)
(***************************************************************************)
\* x or ""
OrEmpty(x) == IF Truthy(x) THEN x ELSE ""

\* the dicts over some of the keys of Fields, key k taking its values in Fields[k]
RECURSIVE DictsOver(_)
DictsOver(Fields) ==
    IF DOMAIN Fields = {}
    THEN {EmptyDict}
    ELSE LET k == CHOOSE x \in DOMAIN Fields : TRUE
             rest == DictsOver([x \in (DOMAIN Fields) \ {k} |-> Fields[x]])
         IN  rest \cup {Update(d, Dict1(k, v)) : d \in rest, v \in Fields[k]}

\* Judge0 status ids: 3 Accepted, 4 Wrong Answer, 6 Compilation Error,
\* 7 Runtime Error
Statuses == {EmptyDict} \cup {Dict1("id", i) : i \in {3, 4, 6, 7}}

Submissions ==
    DictsOver([status |-> Statuses,
               stdout |-> {None, "", "42"},
               stderr |-> {None, "", "ZeroDivisionError"},
               compile_output |-> {None, "", "syntax error"},
               token |-> {"tok"}])

\* a format_result that reports the error text for every status
format_result_ErrorAlways(submission) ==
    LET status == Get(submission, "status", EmptyDict)
        status_id == Get(status, "id", 0)
        is_success == status_id = 3
        stdout == OrEmpty(Get(submission, "stdout", ""))
        error == IF Truthy(Get(submission, "stderr", ""))
                 THEN Get(submission, "stderr", "")
                 ELSE OrEmpty(Get(submission, "compile_output", ""))
    IN  [success |-> is_success,
         output |-> IF ~is_success /\ error # "" THEN error ELSE stdout,
         error |-> error,
         time |-> Get(submission, "time", None),
         memory |-> Get(submission, "memory", None)]

format_result(submission) ==
    LET status == Get(submission, "status", EmptyDict)
        status_id == Get(status, "id", 0)
        is_success == status_id = 3
        stdout == OrEmpty(Get(submission, "stdout", ""))
        error == IF Truthy(Get(submission, "stderr", ""))
                 THEN Get(submission, "stderr", "")
                 ELSE OrEmpty(Get(submission, "compile_output", ""))
    IN  [success |-> is_success,
         output |-> IF ~is_success /\ error # "" THEN error ELSE stdout,
         error |-> IF ~is_success THEN error ELSE None,
         time |-> Get(submission, "time", None),
         memory |-> Get(submission, "memory", None)]

\* SpecFormat applies format_result to one submission; rOut is empty before

InitFormat ==
    /\ store = EmptyDict
    /\ trav = <<>>
    /\ known = {}
    /\ hasKey = TRUE
    /\ noneOnEmpty = FALSE
    /\ writer = [k \in Keys |-> 0]
    /\ interleaved = [k \in Keys |-> FALSE]
    /\ rIn \in Submissions
    /\ rOut = EmptyDict
    /\ resp = NoResponse

ApplyFormatResult ==
    /\ rOut = EmptyDict
    /\ rOut' = format_result(rIn)
    /\ UNCHANGED <<store, trav, known, hasKey, noneOnEmpty, writer, interleaved, rIn>>
    /\ resp' = NoResponse

SpecFormat == InitFormat /\ [][ApplyFormatResult]_vars

\* the text of a key of the submission, a missing or None text being empty
TextOf(submission, k) ==
    IF k \in DOMAIN submission /\ submission[k] # None THEN submission[k] ELSE ""

\* the submission's status id is 3
Accepted(submission) ==
    /\ "status" \in DOMAIN submission
    /\ "id" \in DOMAIN submission["status"]
    /\ submission["status"]["id"] = 3

\* C33: format_result reports success exactly when status.id = 3; error is
\* None exactly when success is true; on failure error is stderr, or
\* compile_output when stderr is empty, and output is that error text when
\* it is non-empty and otherwise stdout (a missing or None text counting as
\* the empty text).
C33_FormatResult ==
    rOut # EmptyDict =>
        LET err == IF TextOf(rIn, "stderr") # ""
                   THEN TextOf(rIn, "stderr")
                   ELSE TextOf(rIn, "compile_output")
        IN  /\ rOut.success <=> Accepted(rIn)
            /\ rOut.error = None <=> rOut.success
            /\ ~rOut.success =>
                  /\ rOut.error = err
                  /\ rOut.output = IF err # "" THEN err ELSE TextOf(rIn, "stdout")

\* a wrong-answer submission with no error text has kept its stdout
C33_Witness ==
    /\ rOut # EmptyDict
    /\ "status" \in DOMAIN rIn /\ Get(rIn["status"], "id", 0) = 4
    /\ TextOf(rIn, "stderr") = "" /\ TextOf(rIn, "compile_output") = ""
    /\ TextOf(rIn, "stdout") = "42"
    /\ rOut.output = "42" /\ ~rOut.success /\ rOut.error = ""


(***************************************************************************)
(* POST /code/execute (api/routes/code.py).  rIn holds the request and     *)
(* what the Judge0 submission came to, rOut the call made to Judge0, resp  *)
(* the handler's response.                                                 *)
(***************************************************************************)
SourceCodes == {"", "puts 42"}
RequestLanguages == {NoText, <<>>, <<"c", "#">>, <<"P", "Y">>}
RequestFilenames == {NoText, <<>>, <<"a", ".", "c">>, <<"a", ".", "z">>}

\* submit_code: it raises (a reply other than 201, an aiohttp.ClientError, a
\* timeout) or returns the JSON of the reply
Judge0Outcomes ==
    {[raised |-> TRUE, message |-> m, value |-> EmptyDict] :
        m \in {"Judge0 API error: 400 - Bad request",
               "Judge0 connection error: reset", ""}}
      \cup {[raised |-> FALSE, message |-> "", value |-> v] : v \in Submissions}

\* no call to Judge0
NoSubmission == [submitted |-> FALSE, language_id |-> 0]

\* a handler without the "except HTTPException: raise" clause
ExecuteCodeResult_NoReraise(code, language, filename, outcome) ==
    LET language_id == IF TruthyText(filename) THEN get_language_id(filename)
                       ELSE IF TruthyText(language) THEN get_language_id(language)
                       ELSE 71
        formatted == format_result(outcome.value)
    IN  IF code = ""
        THEN [status |-> 500, body |-> [detail |-> "400: No valid code provided"],
              call |-> NoSubmission]
        ELSE IF outcome.raised
        THEN [status |-> 500, body |-> [detail |-> outcome.message],
              call |-> [submitted |-> TRUE, language_id |-> language_id]]
        ELSE [status |-> 200,
              body |-> [success |-> formatted.success, output |-> formatted.output,
                        error |-> formatted.error, stdout |-> formatted.output,
                        stderr |-> formatted.error, time |-> formatted.time,
                        memory |-> formatted.memory,
                        token |-> Get(outcome.value, "token", None),
                        status |-> Get(outcome.value, "status", None)],
              call |-> [submitted |-> TRUE, language_id |-> language_id]]

\* what the handler answers and what it sends to Judge0
ExecuteCodeResult(code, language, filename, outcome) ==
    LET language_id == IF TruthyText(filename) THEN get_language_id(filename)
                       ELSE IF TruthyText(language) THEN get_language_id(language)
                       ELSE 71
        formatted == format_result(outcome.value)
    IN  IF code = ""
        THEN [status |-> 400, body |-> [detail |-> "No valid code provided"],
              call |-> NoSubmission]
        ELSE IF outcome.raised
        THEN [status |-> 500, body |-> [detail |-> outcome.message],
              call |-> [submitted |-> TRUE, language_id |-> language_id]]
        ELSE [status |-> 200,
              body |-> [success |-> formatted.success, output |-> formatted.output,
                        error |-> formatted.error, stdout |-> formatted.output,
                        stderr |-> formatted.error, time |-> formatted.time,
                        memory |-> formatted.memory,
                        token |-> Get(outcome.value, "token", None),
                        status |-> Get(outcome.value, "status", None)],
              call |-> [submitted |-> TRUE, language_id |-> language_id]]

\* POST /code/execute
execute_code(code, language, filename, outcome) ==
    LET r == ExecuteCodeResult(code, language, filename, outcome)
    IN  /\ rIn' = [code |-> code, language |-> language, filename |-> filename,
                   judge0 |-> outcome]
        /\ rOut' = r.call
        /\ resp' = Response("execute_code", 0, r.status, r.body)
        /\ UNCHANGED <<store, trav, known, hasKey, noneOnEmpty, writer, interleaved>>

InitCode ==
    /\ store = EmptyDict
    /\ trav = <<>>
    /\ known = {}
    /\ hasKey = TRUE
    /\ noneOnEmpty = FALSE
    /\ writer = [k \in Keys |-> 0]
    /\ interleaved = [k \in Keys |-> FALSE]
    /\ rIn = EmptyDict
    /\ rOut = NoSubmission
    /\ resp = NoResponse

\* the handler keeps nothing between two requests: a behaviour is one request
NextCode ==
    \E code \in SourceCodes, language \in RequestLanguages,
       filename \in RequestFilenames, outcome \in Judge0Outcomes :
        /\ resp = NoResponse
        /\ execute_code(code, language, filename, outcome)

SpecCode == InitCode /\ [][NextCode]_vars

\* C31: execute_code answers 400 "No valid code provided" for empty code and
\* makes no call to Judge0; for other code the language id it submits is that
\* of the filename when one is given, else that of the language when one is
\* given, else 71; it answers 500 when the submission raises and otherwise
\* 200 with success true exactly when the submission's status id is 3.
C31_ExecuteCodeAnswers ==
    resp.op = "execute_code" =>
        /\ rIn.code = "" =>
              /\ resp.status = 400
              /\ resp.body.detail = "No valid code provided"
              /\ ~rOut.submitted
        /\ rIn.code # "" =>
              /\ rOut.submitted
              /\ rOut.language_id =
                    IF rIn.filename \notin {NoText, <<>>}
                    THEN get_language_id(rIn.filename)
                    ELSE IF rIn.language \notin {NoText, <<>>}
                    THEN get_language_id(rIn.language)
                    ELSE 71
              /\ rIn.judge0.raised => resp.status = 500
              /\ ~rIn.judge0.raised =>
                    /\ resp.status = 200
                    /\ resp.body.success <=> Accepted(rIn.judge0.value)

\* a request with a file name and a language that name different languages
\* has been run with the id of the file name and accepted
C31_Witness ==
    /\ resp.op = "execute_code" /\ resp.status = 200 /\ resp.body.success
    /\ rIn.filename = <<"a", ".", "c">> /\ rIn.language = <<"c", "#">>
    /\ rOut.submitted /\ rOut.language_id = 50


(***************************************************************************)
(* Further properties of the /refine calls and of the stream loops.        *)
(***************************************************************************)
\* C34: iteration_count changes only through a completed refine traversal.
\* While the stream of an accepted /refine call has not been read, after it
\* was abandoned and after its refinement stage failed, the stored count is
\* what it was before the call (no other call having written to the key).
C34_CountOnlyByCompletedRefine ==
    \A t \in DOMAIN trav :
        (/\ trav[t].kind = "refine"
         /\ trav[t].alone
         /\ trav[t].pc \in {"created", "closed", "failed"})
            => Get(store[trav[t].key], "iteration_count", 0) = trav[t].before

\* C35: the traversal of every accepted /refine call, whatever its feedback
\* text (the empty text included), goes from the entry node to refinement and
\* never runs classifier or code_generator; and a /generate traversal that
\* no other call disturbs leaves iteration_count at 0.
C35_RefineEntersRefinement ==
    \A t \in DOMAIN trav :
        /\ trav[t].kind = "refine" =>
              /\ ~Occurs("classifier", trav[t].ran)
              /\ ~Occurs("code_generator", trav[t].ran)
              /\ Len(trav[t].ran) >= 2 => trav[t].ran[2] = "refinement"
        /\ (trav[t].kind = "generate" /\ CompleteEmitted(t) /\ trav[t].alone)
              => trav[t].after = 0

\* C36: the graph state of a refine traversal carries the feedback of the
\* call that created the traversal, so that its refinement stage receives
\* that text, also when another /refine call on the key was accepted before
\* the stream was first read.
C36_OwnFeedbackConsumed ==
    \A t \in DOMAIN trav :
        (trav[t].kind = "refine" /\ trav[t].pc \in Nodes)
            => Get(trav[t].state, "user_feedback", None) = trav[t].feedback

\* no /refine call on the key of traversal t has been accepted since t began
NoLaterCall(t) ==
    \A u \in DOMAIN trav : u > t => trav[u].key # trav[t].key

\* C38: between two stages of a traversal during which no other /refine call
\* on its key was accepted, the stored dict of the key and the graph state
\* that the next stage receives agree on every key of ProjectState.
C38_StoreMirrorsGraphState ==
    \A t \in DOMAIN trav :
        (/\ NoLaterCall(t)
         /\ trav[t].pc \in Nodes
         /\ trav[t].ran # <<>>)
            => GraphInput(store[trav[t].key]) = trav[t].state

\* C40: the step that runs the entry node, whose patch is empty, leaves the
\* registry as it is, sends the progress notification of the node and does
\* not end the traversal, in /generate and /refine streams alike.
C40_EmptyPatchHarmless ==
    [][\A t \in DOMAIN trav :
          (trav[t].pc = "started" /\ trav'[t].pc \notin {"started", "closed"})
             => /\ store' = store
                /\ trav'[t].pc # "failed"
                /\ trav'[t].events = Append(trav[t].events, ProgressEvent("router"))]_vars

\* C37: no artifact update of a refine traversal is lost.  When two refine
\* traversals on one key have both run their refinement stage and sent
\* complete, the stored current_files hold every file entry that the
\* refinement stage of either of them added or rewrote.
C37_NoLostRefineUpdate ==
    \A t, u \in DOMAIN trav :
        (/\ t # u
         /\ trav[t].key = trav[u].key
         /\ trav[t].kind = "refine" /\ trav[u].kind = "refine"
         /\ Occurs("refinement", trav[t].ran) /\ Occurs("refinement", trav[u].ran)
         /\ CompleteEmitted(t) /\ CompleteEmitted(u))
            => LET files == Get(store[trav[t].key], "current_files", EmptyDict)
               IN  \A n \in DOMAIN trav[t].changed :
                      n \in DOMAIN files /\ files[n] = trav[t].changed[n]


(***************************************************************************)
(* file_organizer_agent on its own: SpecOrganize applies it to a graph     *)
(* state and then to the state its patch gives.                            *)
(***************************************************************************)
OrganizerDefaults == {PKG, INDEX, GITIGNORE, VITE, POSTCSS, TAILWIND}

\* the current_files the organizer may be given: generated files, files of
\* its own making, and names that contain a default name
OrganizerInputs ==
    {EmptyDict} \cup
    {Dict1("current_files", f) :
        f \in DictsOver([n \in OrganizerDefaults \cup {APPJSX, PKGBAK} |->
                            IF n = PKG THEN {"llm", "default"} ELSE {"llm"}])}

NotOrganized == [applied |-> 0, once |-> EmptyDict, twice |-> EmptyDict]

InitOrganize ==
    /\ store = EmptyDict
    /\ trav = <<>>
    /\ known = {}
    /\ hasKey = TRUE
    /\ noneOnEmpty = FALSE
    /\ writer = [k \in Keys |-> 0]
    /\ interleaved = [k \in Keys |-> FALSE]
    /\ rIn \in OrganizerInputs
    /\ rOut = NotOrganized
    /\ resp = NoResponse

ApplyOrganizer ==
    /\ rOut.applied = 0
    /\ rOut' = [rOut EXCEPT !.applied = 1,
                            !.once = file_organizer_agent(rIn).patch["current_files"]]
    /\ UNCHANGED <<store, trav, known, hasKey, noneOnEmpty, writer, interleaved, rIn>>
    /\ resp' = NoResponse

ApplyOrganizerAgain ==
    /\ rOut.applied = 1
    /\ rOut' = [rOut EXCEPT !.applied = 2,
                            !.twice = file_organizer_agent(
                                Update(rIn, Dict1("current_files", rOut.once))
                              ).patch["current_files"]]
    /\ UNCHANGED <<store, trav, known, hasKey, noneOnEmpty, writer, interleaved, rIn>>
    /\ resp' = NoResponse

NextOrganize == ApplyOrganizer \/ ApplyOrganizerAgain

SpecOrganize == InitOrganize /\ [][NextOrganize]_vars

\* C39: file_organizer_agent keeps every file it is given, with the content
\* it had, and adds only names among its six defaults that were missing;
\* applied to its own result it returns the same files.
C39_OrganizerKeepsAndIsIdempotent ==
    LET given == Get(rIn, "current_files", EmptyDict)
    IN  /\ rOut.applied >= 1 =>
              /\ \A n \in DOMAIN given :
                    n \in DOMAIN rOut.once /\ rOut.once[n] = given[n]
              /\ (DOMAIN rOut.once) \ (DOMAIN given) \subseteq OrganizerDefaults
        /\ rOut.applied = 2 => rOut.twice = rOut.once

\* the organizer has run twice on generated files that lacked some defaults
\* and held a package.json of their own
C39_Witness ==
    /\ rOut.applied = 2
    /\ "current_files" \in DOMAIN rIn
    /\ {PKG, APPJSX} \subseteq DOMAIN rIn["current_files"]
    /\ rIn["current_files"][PKG] = "llm"
    /\ rOut.once # rIn["current_files"]
    /\ rOut.once[PKG] = "llm"

====
